---- MODULE Spec2Model ----
(***************************************************************************)
(* zodson: conversion between zod validation schemas and MongoDB BSON      *)
(* schema descriptors (src/types.ts, lines 749-1107).                      *)
(*                                                                         *)
(* A zod schema node is a record carrying its class name (typeName, what   *)
(* `instanceof` and `constructor.name` observe) and the fields of its      *)
(* `_def` that the converters read.  A descriptor is a record holding      *)
(* exactly the keys the JavaScript object has, so `'k' in d` is            *)
(* "k" \in DOMAIN d and `d.k === undefined` is "k" \notin DOMAIN d.         *)
(* JavaScript objects used as ordered maps (an object shape, `properties`) *)
(* are sequences of [key, value] entries in insertion order.  A thrown     *)
(* Error is a record with the key "error"; it aborts every enclosing call. *)
(***************************************************************************)
EXTENDS Integers, Sequences, FiniteSets, TLC

VARIABLES zodIn, bsonIn, bsonOut, validator, zodOut, bsonAgain, parsed

vars == <<zodIn, bsonIn, bsonOut, validator, zodOut, bsonAgain, parsed>>

(* ---------------------------------------------------------------------- *)
(* Bounds of the model                                                     *)
(* ---------------------------------------------------------------------- *)
\* longest list of checks on a String node
MaxChecks == 2
\* largest length bound (min/max length, min/max items, min/max properties)
MaxBound == 2

(* ---------------------------------------------------------------------- *)
(* Small generic helpers                                                   *)
(* ---------------------------------------------------------------------- *)
Null == [null |-> TRUE]
None == [none |-> TRUE]
EmptyObj == <<>>

Has(obj, key) == key \in DOMAIN obj
IsError(r) == "error" \in DOMAIN r

SeqsUpTo(S, n) == UNION {[1..k -> S] : k \in 0..n}

\* index of the first element of seq that is an Error (0 when none is)
FirstErrorIndex(seq) ==
  IF \E i \in DOMAIN seq : IsError(seq[i])
  THEN CHOOSE i \in DOMAIN seq :
         IsError(seq[i]) /\ \A j \in 1..(i - 1) : ~IsError(seq[j])
  ELSE 0

(* ---------------------------------------------------------------------- *)
(* zod schema nodes                                                        *)
(* ---------------------------------------------------------------------- *)
ZString(checks) == [typeName |-> "ZodString", checks |-> checks]
ZNumber(checks) == [typeName |-> "ZodNumber", checks |-> checks]
ZBoolean == [typeName |-> "ZodBoolean"]
ZDate == [typeName |-> "ZodDate"]
ZAny == [typeName |-> "ZodAny"]
ZUndefined == [typeName |-> "ZodUndefined"]
ZEnum(values) == [typeName |-> "ZodEnum", values |-> values]
ZNativeEnum(values) == [typeName |-> "ZodNativeEnum", values |-> values]
ZOptional(inner) == [typeName |-> "ZodOptional", innerType |-> inner]
ZNullable(inner) == [typeName |-> "ZodNullable", innerType |-> inner]
ZUnion(options) == [typeName |-> "ZodUnion", options |-> options]
ZObject(shape, unknownKeys) ==
  [typeName |-> "ZodObject", shape |-> shape, unknownKeys |-> unknownKeys]
ZRecord(valueType) == [typeName |-> "ZodRecord", valueType |-> valueType]
ZArray(type, minLength, maxLength) ==
  [typeName |-> "ZodArray", type |-> type,
   minLength |-> minLength, maxLength |-> maxLength]
ZEffects(schema, effect) ==
  [typeName |-> "ZodEffects", schema |-> schema, effect |-> effect]
\* variants the forward converter has no rule for
ZTuple == [typeName |-> "ZodTuple"]
ZBigInt == [typeName |-> "ZodBigInt"]

Entry(key, value) == [key |-> key, value |-> value]

\* checks of a String / Number node
MinCheck(n) == [kind |-> "min", value |-> n]
MaxCheck(n) == [kind |-> "max", value |-> n]
IntCheck == [kind |-> "int"]
MultipleOfCheck(n) == [kind |-> "multipleOf", value |-> n]
EmailCheck == [kind |-> "email"]
UuidCheck == [kind |-> "uuid"]
RegexCheck(regex) == [kind |-> "regex", regex |-> regex]

\* a RegExp object: its source text and its flags
Regex(source, flags) == [source |-> source, flags |-> flags]

\* `new RegExp(pattern)`: no flags; the empty pattern has source "(?:)"
NewRegExp(pattern) ==
  Regex(IF pattern = "" THEN "(?:)" ELSE pattern, "")

objectIdPattern == "^[0-9a-fA-F]{24}$"
emailPattern == "^[a-zA-Z0-9._%+-]+@[a-zA-Z0-9.-]+\\.[a-zA-Z]{2,}$"

\* a converter that maps objectId back to an unconstrained String node
zodObjectId_Generic == ZString(<<>>)

zodObjectId == ZString(<<RegexCheck(NewRegExp(objectIdPattern))>>)

(* ---------------------------------------------------------------------- *)
(* zodToBsonSchema                                                         *)
(* ---------------------------------------------------------------------- *)
\* a converter that reports the base class instead of the node's own class
UnsupportedZodType_Base(z) == [error |-> "Unsupported Zod type", name |-> "ZodType"]

UnsupportedZodType(z) == [error |-> "Unsupported Zod type", name |-> z.typeName]

\* the early return of the String case
IsObjectIdCheck(check) ==
  check.kind = "regex" /\ check.regex.source = objectIdPattern

HasObjectIdCheck(checks) ==
  \E i \in DOMAIN checks : IsObjectIdCheck(checks[i])

\* one step of checks.forEach on the String descriptor being built
ApplyStringCheck(stringSchema, check) ==
  CASE check.kind = "min" ->
         [minLength |-> check.value] @@ stringSchema
    [] check.kind = "max" ->
         [maxLength |-> check.value] @@ stringSchema
    [] check.kind = "regex" ->
         [pattern |-> check.regex.source] @@ stringSchema
    [] check.kind = "email" ->
         [pattern |-> emailPattern] @@ stringSchema
    [] OTHER -> stringSchema

\* checks.forEach over the String checks, in order
RECURSIVE ForEachStringCheck(_, _)
ForEachStringCheck(stringSchema, checks) ==
  IF checks = <<>> THEN stringSchema
  ELSE ForEachStringCheck(ApplyStringCheck(stringSchema, Head(checks)),
                          Tail(checks))

StringToBson(checks) ==
  IF HasObjectIdCheck(checks)
  THEN [bsonType |-> "objectId"]
  ELSE ForEachStringCheck([bsonType |-> "string"], checks)

\* one step of checks.forEach on the list of numeric alternatives
ApplyNumberCheck(oneOf, check) ==
  CASE check.kind = "min" ->
         [i \in DOMAIN oneOf |-> [minimum |-> check.value] @@ oneOf[i]]
    [] check.kind = "max" ->
         [i \in DOMAIN oneOf |-> [maximum |-> check.value] @@ oneOf[i]]
    [] check.kind = "int" ->
         SelectSeq(oneOf, LAMBDA type : type.bsonType \in {"int", "long"})
    [] OTHER -> oneOf

\* checks.forEach over the Number checks, in order
RECURSIVE ForEachNumberCheck(_, _)
ForEachNumberCheck(oneOf, checks) ==
  IF checks = <<>> THEN oneOf
  ELSE ForEachNumberCheck(ApplyNumberCheck(oneOf, Head(checks)), Tail(checks))

NumberToBson(checks) ==
  [oneOf |-> ForEachNumberCheck(
               <<[bsonType |-> "int"], [bsonType |-> "long"],
                 [bsonType |-> "double"], [bsonType |-> "decimal"]>>,
               checks)]

\* a converter that looks for the Optional-wrapper below a Nullable-wrapper
RequiredKeys_Unwrapped(shape) ==
  LET keep == SelectSeq(shape,
                LAMBDA e : ~(\/ e.value.typeName = "ZodOptional"
                             \/ /\ e.value.typeName = "ZodNullable"
                                /\ e.value.innerType.typeName = "ZodOptional"))
  IN [i \in DOMAIN keep |-> keep[i].key]

\* the keys pushed to `required` by the loop over the shape
RequiredKeys(shape) ==
  LET keep == SelectSeq(shape, LAMBDA e : e.value.typeName # "ZodOptional")
  IN [i \in DOMAIN keep |-> keep[i].key]

ObjectToBson(properties, required) ==
  IF Len(required) > 0
  THEN [bsonType |-> "object", properties |-> properties, required |-> required]
  ELSE [bsonType |-> "object", properties |-> properties]

ArrayToBson(items, minLength, maxLength) ==
  (IF maxLength # Null THEN [maxItems |-> maxLength.value] ELSE EmptyObj)
  @@ (IF minLength # Null THEN [minItems |-> minLength.value] ELSE EmptyObj)
  @@ [bsonType |-> "array", items |-> items]

NullableToBson_NullLast(innerSchema) ==
  [oneOf |-> <<innerSchema, [bsonType |-> "null"]>>]

NullableToBson(innerSchema) ==
  [oneOf |-> <<[bsonType |-> "null"], innerSchema>>]

RECURSIVE zodToBsonSchema(_)
zodToBsonSchema(zodSchema) ==
  LET t == zodSchema.typeName IN
  CASE t = "ZodOptional" -> zodToBsonSchema(zodSchema.innerType)
    [] t = "ZodNullable" ->
         LET innerSchema == zodToBsonSchema(zodSchema.innerType)
         IN IF IsError(innerSchema) THEN innerSchema
            ELSE NullableToBson(innerSchema)
    [] t = "ZodUndefined" -> EmptyObj
    [] t = "ZodUnion" ->
         LET options == zodSchema.options
             conv == [i \in DOMAIN options |-> zodToBsonSchema(options[i])]
             bad == FirstErrorIndex(conv)
         IN IF bad # 0 THEN conv[bad] ELSE [oneOf |-> conv]
    [] t = "ZodObject" ->
         LET shape == zodSchema.shape
             conv == [i \in DOMAIN shape |-> zodToBsonSchema(shape[i].value)]
             bad == FirstErrorIndex(conv)
             properties == [i \in DOMAIN shape |-> Entry(shape[i].key, conv[i])]
         IN IF bad # 0 THEN conv[bad]
            ELSE ObjectToBson(properties, RequiredKeys(shape))
    [] t = "ZodRecord" ->
         LET valueSchema == zodToBsonSchema(zodSchema.valueType)
         IN IF IsError(valueSchema) THEN valueSchema
            ELSE [bsonType |-> "object", additionalProperties |-> valueSchema]
    [] t = "ZodArray" ->
         LET items == zodToBsonSchema(zodSchema.type)
         IN IF IsError(items) THEN items
            ELSE ArrayToBson(items, zodSchema.minLength, zodSchema.maxLength)
    [] t = "ZodString" -> StringToBson(zodSchema.checks)
    [] t = "ZodNumber" -> NumberToBson(zodSchema.checks)
    [] t = "ZodBoolean" -> [bsonType |-> "bool"]
    [] t = "ZodDate" -> [bsonType |-> "date"]
    [] t = "ZodEnum" -> [bsonType |-> "string", enum |-> zodSchema.values]
    [] t = "ZodNativeEnum" ->
         [bsonType |-> "string",
          enum |-> [i \in DOMAIN zodSchema.values |-> zodSchema.values[i].value]]
    [] t = "ZodAny" -> EmptyObj
    [] OTHER -> UnsupportedZodType(zodSchema)

\* a validator builder that adds a second top-level key
createMongoValidator_TwoKeys(zodSchema) ==
  LET schema == zodToBsonSchema(zodSchema)
  IN IF IsError(schema) THEN schema
     ELSE [key \in {"$jsonSchema", "validationLevel"} |->
             IF key = "$jsonSchema" THEN schema ELSE [level |-> "strict"]]

createMongoValidator(zodSchema) ==
  LET schema == zodToBsonSchema(zodSchema)
  IN IF IsError(schema) THEN schema
     ELSE [key \in {"$jsonSchema"} |-> schema]

(* ---------------------------------------------------------------------- *)
(* mongoSchemaToZod                                                        *)
(* ---------------------------------------------------------------------- *)
\* descriptor encodings of the two JavaScript values that are not records:
\* an `items` that is an array of descriptors, and a boolean
\* `additionalProperties`
ItemsList(list) == [list |-> list]
JsBool(b) == [boolean |-> b]

\* a converter whose message reads a key the descriptor does not have
UnsupportedBsonType_NoKind(mongoSchema) ==
  [error |-> "Unsupported BSON type", name |-> "undefined"]

UnsupportedBsonType(mongoSchema) ==
  [error |-> "Unsupported BSON type",
   name |-> IF Has(mongoSchema, "bsonType") THEN mongoSchema.bsonType
            ELSE "undefined"]

\* Object.entries(undefined) on a descriptor without `properties`
EntriesTypeError ==
  [error |-> "TypeError", name |-> "Cannot convert undefined or null to object"]

BsonTypeOf(mongoSchema) ==
  IF Has(mongoSchema, "bsonType") THEN mongoSchema.bsonType ELSE "undefined"

UnionToZod(schemas) == ZUnion(schemas)

UniqueItemsEffect == [type |-> "refinement", check |-> "uniqueItems"]

ArrayToZod(elementSchema, mongoSchema) ==
  LET arraySchema ==
        ZArray(elementSchema,
               IF Has(mongoSchema, "minItems")
               THEN [value |-> mongoSchema.minItems] ELSE Null,
               IF Has(mongoSchema, "maxItems")
               THEN [value |-> mongoSchema.maxItems] ELSE Null)
  IN IF Has(mongoSchema, "uniqueItems") /\ mongoSchema.uniqueItems
     THEN ZEffects(arraySchema, UniqueItemsEffect)
     ELSE arraySchema

\* the closure validateProperties keeps of the descriptor
PropertyBounds(mongoSchema) ==
  (IF Has(mongoSchema, "minProperties")
   THEN [minProperties |-> mongoSchema.minProperties] ELSE EmptyObj)
  @@ (IF Has(mongoSchema, "maxProperties")
      THEN [maxProperties |-> mongoSchema.maxProperties] ELSE EmptyObj)

ValidatePropertiesEffect(mongoSchema) ==
  [type |-> "refinement", check |-> "validateProperties",
   bounds |-> PropertyBounds(mongoSchema)]

IsAdditionalPropertiesFalse_Falsy(mongoSchema) ==
  \/ ~Has(mongoSchema, "additionalProperties")
  \/ /\ Has(mongoSchema.additionalProperties, "boolean")
     /\ mongoSchema.additionalProperties.boolean = FALSE

\* mongoSchema.additionalProperties === false
IsAdditionalPropertiesFalse(mongoSchema) ==
  /\ Has(mongoSchema, "additionalProperties")
  /\ Has(mongoSchema.additionalProperties, "boolean")
  /\ mongoSchema.additionalProperties.boolean = FALSE

ObjectToZod(shape, mongoSchema) ==
  LET baseSchema ==
        IF IsAdditionalPropertiesFalse(mongoSchema)
        THEN ZObject(shape, "strict")
        ELSE ZObject(shape, "passthrough")
  IN IF ~Has(mongoSchema, "minProperties") /\ ~Has(mongoSchema, "maxProperties")
     THEN baseSchema
     ELSE ZEffects(baseSchema, ValidatePropertiesEffect(mongoSchema))

\* shape[key] = required.has(key) ? fieldSchema : fieldSchema.optional()
FieldToZod(key, fieldSchema, mongoSchema) ==
  LET required == IF Has(mongoSchema, "required")
                  THEN {mongoSchema.required[i] : i \in DOMAIN mongoSchema.required}
                  ELSE {}
  IN IF key \in required THEN fieldSchema ELSE ZOptional(fieldSchema)

StringToZod_ConstraintsFirst(mongoSchema) ==
  LET c1 == IF Has(mongoSchema, "minLength")
            THEN <<MinCheck(mongoSchema.minLength)>> ELSE <<>>
      c2 == IF Has(mongoSchema, "maxLength")
            THEN <<MaxCheck(mongoSchema.maxLength)>> ELSE <<>>
      c3 == IF Has(mongoSchema, "pattern")
            THEN <<RegexCheck(NewRegExp(mongoSchema.pattern))>> ELSE <<>>
  IN IF Has(mongoSchema, "enum") /\ c1 \o c2 \o c3 = <<>>
     THEN ZEnum(mongoSchema.enum)
     ELSE ZString(c1 \o c2 \o c3)

StringToZod(mongoSchema) ==
  LET c1 == IF Has(mongoSchema, "minLength")
            THEN <<MinCheck(mongoSchema.minLength)>> ELSE <<>>
      c2 == IF Has(mongoSchema, "maxLength")
            THEN <<MaxCheck(mongoSchema.maxLength)>> ELSE <<>>
      c3 == IF Has(mongoSchema, "pattern")
            THEN <<RegexCheck(NewRegExp(mongoSchema.pattern))>> ELSE <<>>
  IN IF Has(mongoSchema, "enum")
     THEN ZEnum(mongoSchema.enum)
     ELSE ZString(c1 \o c2 \o c3)

NumberKinds == {"number", "double", "int", "long", "decimal"}

NumberToZod(mongoSchema) ==
  LET c0 == IF mongoSchema.bsonType \in {"int", "long"}
            THEN <<IntCheck>> ELSE <<>>
      c1 == IF Has(mongoSchema, "minimum")
            THEN <<MinCheck(mongoSchema.minimum)>> ELSE <<>>
      c2 == IF Has(mongoSchema, "maximum")
            THEN <<MaxCheck(mongoSchema.maximum)>> ELSE <<>>
      c3 == IF Has(mongoSchema, "multipleOf")
            THEN <<MultipleOfCheck(mongoSchema.multipleOf)>> ELSE <<>>
  IN ZNumber(c0 \o c1 \o c2 \o c3)

Base64Effect == [type |-> "transform", check |-> "base64"]

RECURSIVE mongoSchemaToZod(_)
mongoSchemaToZod(mongoSchema) ==
  LET t == BsonTypeOf(mongoSchema) IN
  IF Has(mongoSchema, "oneOf") THEN
    LET oneOf == mongoSchema.oneOf
        schemas == [i \in DOMAIN oneOf |-> mongoSchemaToZod(oneOf[i])]
        bad == FirstErrorIndex(schemas)
    IN IF bad # 0 THEN schemas[bad] ELSE UnionToZod(schemas)
  ELSE CASE t = "array" ->
         LET items == mongoSchema.items
             elementSchema ==
               IF Has(items, "list")
               THEN IF Len(items.list) = 1
                    THEN mongoSchemaToZod(items.list[1])
                    ELSE LET members == [i \in DOMAIN items.list |->
                                           mongoSchemaToZod(items.list[i])]
                             bad == FirstErrorIndex(members)
                         IN IF bad # 0 THEN members[bad] ELSE ZUnion(members)
               ELSE mongoSchemaToZod(items)
         IN IF IsError(elementSchema) THEN elementSchema
            ELSE ArrayToZod(elementSchema, mongoSchema)
    [] t = "object" ->
         IF ~Has(mongoSchema, "properties") THEN EntriesTypeError
         ELSE
           LET properties == mongoSchema.properties
               conv == [i \in DOMAIN properties |->
                          mongoSchemaToZod(properties[i].value)]
               bad == FirstErrorIndex(conv)
               shape == [i \in DOMAIN properties |->
                           Entry(properties[i].key,
                                 FieldToZod(properties[i].key, conv[i],
                                            mongoSchema))]
           IN IF bad # 0 THEN conv[bad] ELSE ObjectToZod(shape, mongoSchema)
    [] t = "string" -> StringToZod(mongoSchema)
    [] t = "bool" -> ZBoolean
    [] t = "objectId" -> zodObjectId
    [] t = "date" -> ZDate
    [] t = "uuid" -> ZString(<<UuidCheck>>)
    [] t = "binData" -> ZEffects(ZString(<<>>), Base64Effect)
    [] t \in NumberKinds -> NumberToZod(mongoSchema)
    [] OTHER -> UnsupportedBsonType(mongoSchema)

(* ---------------------------------------------------------------------- *)
(* Run-time values and strings                                             *)
(* ---------------------------------------------------------------------- *)
VStr(s) == [kind |-> "string", val |-> s]
VBool(b) == [kind |-> "boolean", val |-> b]
\* a number, held as twice its value so that halves are representable
VNum(twice) == [kind |-> "number", twice |-> twice]
VDate(t) == [kind |-> "date", time |-> t]
VNull == [kind |-> "null"]
VUndefined == [kind |-> "undefined"]
VArr(items) == [kind |-> "array", items |-> items]
VObj(entries) == [kind |-> "object", entries |-> entries]
VBuffer(s) == [kind |-> "buffer", base64 |-> s]

OidString == "0123456789abcdefABCDEF01"
EmailString == "a@b.co"

\* the characters of the strings the model validates
Chars(s) ==
  CASE s = "" -> <<>>
    [] s = "a" -> <<"a">>
    [] s = "A" -> <<"A">>
    [] s = "ab" -> <<"a", "b">>
    [] s = "abc" -> <<"a", "b", "c">>
    [] s = "abcd" -> <<"a", "b", "c", "d">>
    [] s = "red" -> <<"r", "e", "d">>
    [] s = "green" -> <<"g", "r", "e", "e", "n">>
    [] s = EmailString -> <<"a", "@", "b", ".", "c", "o">>
    [] s = OidString ->
         <<"0", "1", "2", "3", "4", "5", "6", "7", "8", "9", "a", "b",
           "c", "d", "e", "f", "A", "B", "C", "D", "E", "F", "0", "1">>

LowerSeq == <<"a", "b", "c", "d", "e", "f", "g", "h", "i", "j", "k", "l", "m",
              "n", "o", "p", "q", "r", "s", "t", "u", "v", "w", "x", "y", "z">>
UpperSeq == <<"A", "B", "C", "D", "E", "F", "G", "H", "I", "J", "K", "L", "M",
              "N", "O", "P", "Q", "R", "S", "T", "U", "V", "W", "X", "Y", "Z">>
LowerLetters == {LowerSeq[i] : i \in DOMAIN LowerSeq}
UpperLetters == {UpperSeq[i] : i \in DOMAIN UpperSeq}
Digits == {"0", "1", "2", "3", "4", "5", "6", "7", "8", "9"}
HexChars == Digits \cup {"a", "b", "c", "d", "e", "f"}
                   \cup {"A", "B", "C", "D", "E", "F"}
AlphaNum == LowerLetters \cup UpperLetters \cup Digits
AllChars == AlphaNum \cup {"@", ".", "_", "%", "+", "-", "'"}

ToLower(c) ==
  IF c \in UpperLetters
  THEN LowerSeq[CHOOSE i \in DOMAIN UpperSeq : UpperSeq[i] = c]
  ELSE c

\* a pattern as a sequence of anchored segments [class]{min,max};
\* max = -1 is "no upper limit"
Seg(cls, min, max) == [cls |-> cls, min |-> min, max |-> max]

PatternSegments(source) ==
  CASE source = objectIdPattern -> <<Seg(HexChars, 24, 24)>>
    [] source = "^[a-z]+$" -> <<Seg(LowerLetters, 1, -1)>>
    [] source = emailPattern ->
         <<Seg(AlphaNum \cup {".", "_", "%", "+", "-"}, 1, -1),
           Seg({"@"}, 1, 1),
           Seg(AlphaNum \cup {".", "-"}, 1, -1),
           Seg({"."}, 1, 1),
           Seg(LowerLetters \cup UpperLetters, 2, -1)>>
    [] source = "(?:)" -> <<Seg(AllChars, 0, -1)>>

InClass(c, cls, ignoreCase) ==
  IF ignoreCase THEN \E d \in cls : ToLower(d) = ToLower(c) ELSE c \in cls

RECURSIVE MatchSegs(_, _, _)
MatchSegs(segs, chars, ignoreCase) ==
  IF segs = <<>> THEN chars = <<>>
  ELSE LET seg == Head(segs)
           hi == IF seg.max < 0 \/ seg.max > Len(chars)
                 THEN Len(chars) ELSE seg.max
       IN \E k \in seg.min..hi :
            /\ \A j \in 1..k : InClass(chars[j], seg.cls, ignoreCase)
            /\ MatchSegs(Tail(segs), SubSeq(chars, k + 1, Len(chars)),
                         ignoreCase)

\* regex.test(s)
RegexTest(regex, s) ==
  MatchSegs(PatternSegments(regex.source), Chars(s), regex.flags = "i")

\* zod's own email and uuid checks (case-insensitive)
ZodEmailSegments ==
  <<Seg(AlphaNum \cup {".", "_", "'", "+", "-"}, 0, -1),
    Seg(AlphaNum \cup {"_", "+", "-"}, 1, 1),
    Seg({"@"}, 1, 1),
    Seg(AlphaNum, 1, 1),
    Seg(AlphaNum \cup {"-"}, 0, -1),
    Seg({"."}, 1, 1),
    Seg(LowerLetters \cup UpperLetters, 2, -1)>>

ZodUuidSegments ==
  <<Seg(HexChars, 8, 8), Seg({"-"}, 1, 1), Seg(HexChars, 4, 4),
    Seg({"-"}, 1, 1), Seg(HexChars, 4, 4), Seg({"-"}, 1, 1),
    Seg(HexChars, 4, 4), Seg({"-"}, 1, 1), Seg(HexChars, 12, 12)>>

StringCheckOk(check, s) ==
  CASE check.kind = "min" -> Len(Chars(s)) >= check.value
    [] check.kind = "max" -> Len(Chars(s)) <= check.value
    [] check.kind = "regex" -> RegexTest(check.regex, s)
    [] check.kind = "email" -> MatchSegs(ZodEmailSegments, Chars(s), TRUE)
    [] check.kind = "uuid" -> MatchSegs(ZodUuidSegments, Chars(s), TRUE)

NumberCheckOk(check, twice) ==
  CASE check.kind = "min" -> twice >= 2 * check.value
    [] check.kind = "max" -> twice <= 2 * check.value
    [] check.kind = "int" -> twice % 2 = 0
    [] check.kind = "multipleOf" -> twice % (2 * check.value) = 0

(* ---------------------------------------------------------------------- *)
(* The refinements mongoSchemaToZod attaches                               *)
(* ---------------------------------------------------------------------- *)
IsPrimitive(v) ==
  v.kind \in {"string", "boolean", "number", "null", "undefined"}

\* what a JavaScript Set keys an element of a parse result by: a primitive
\* by its value, an object (object, array, Date, Buffer) by its identity.
\* Every object in a parse result is allocated by the parse, so its
\* identity is its position in the result.
SetKey(items, i) ==
  IF IsPrimitive(items[i]) THEN items[i] ELSE [ref |-> i]

\* new Set(items).size
SetSize(items) == Cardinality({SetKey(items, i) : i \in DOMAIN items})

\* (items) => new Set(items).size === items.length
UniqueItemsCheck(items) == SetSize(items) = Len(items)

\* a validateProperties whose lower bound is exclusive
ValidateProperties_Exclusive(bounds, obj) ==
  LET count == Len(obj.entries)
      minOk == ~Has(bounds, "minProperties") \/ count > bounds.minProperties
      maxOk == ~Has(bounds, "maxProperties") \/ count <= bounds.maxProperties
  IN minOk /\ maxOk

\* validateProperties(obj), with the descriptor's bounds
ValidateProperties(bounds, obj) ==
  LET count == Len(obj.entries)
      minOk == ~Has(bounds, "minProperties") \/ count >= bounds.minProperties
      maxOk == ~Has(bounds, "maxProperties") \/ count <= bounds.maxProperties
  IN minOk /\ maxOk

RefinementOk(effect, data) ==
  CASE effect.check = "uniqueItems" -> UniqueItemsCheck(data.items)
    [] effect.check = "validateProperties" ->
         ValidateProperties(effect.bounds, data)

(* ---------------------------------------------------------------------- *)
(* zod validation: schema.safeParse(value)                                 *)
(* ---------------------------------------------------------------------- *)
Invalid == [success |-> FALSE]
Valid(data) == [success |-> TRUE, data |-> data]

KeysOf(entries) == {entries[i].key : i \in DOMAIN entries}

\* obj[key], undefined when the key is absent
Lookup(entries, key) ==
  IF key \in KeysOf(entries)
  THEN entries[CHOOSE i \in DOMAIN entries : entries[i].key = key].value
  ELSE VUndefined

RECURSIVE SafeParse(_, _)
SafeParse(schema, v) ==
  LET t == schema.typeName IN
  CASE t = "ZodString" ->
         IF v.kind = "string"
            /\ \A i \in DOMAIN schema.checks : StringCheckOk(schema.checks[i], v.val)
         THEN Valid(v) ELSE Invalid
    [] t = "ZodNumber" ->
         IF v.kind = "number"
            /\ \A i \in DOMAIN schema.checks : NumberCheckOk(schema.checks[i], v.twice)
         THEN Valid(v) ELSE Invalid
    [] t = "ZodBoolean" -> IF v.kind = "boolean" THEN Valid(v) ELSE Invalid
    [] t = "ZodDate" -> IF v.kind = "date" THEN Valid(v) ELSE Invalid
    [] t = "ZodAny" -> Valid(v)
    [] t = "ZodUndefined" -> IF v.kind = "undefined" THEN Valid(v) ELSE Invalid
    [] t = "ZodEnum" ->
         IF v.kind = "string" /\ \E i \in DOMAIN schema.values : schema.values[i] = v.val
         THEN Valid(v) ELSE Invalid
    [] t = "ZodNativeEnum" ->
         IF v.kind = "string"
            /\ \E i \in DOMAIN schema.values : schema.values[i].value = v.val
         THEN Valid(v) ELSE Invalid
    [] t = "ZodOptional" ->
         IF v.kind = "undefined" THEN Valid(v) ELSE SafeParse(schema.innerType, v)
    [] t = "ZodNullable" ->
         IF v.kind = "null" THEN Valid(v) ELSE SafeParse(schema.innerType, v)
    [] t = "ZodUnion" ->
         LET res == [i \in DOMAIN schema.options |-> SafeParse(schema.options[i], v)]
             ok == {i \in DOMAIN res : res[i].success}
         IN IF ok = {} THEN Invalid
            ELSE res[CHOOSE i \in ok : \A j \in ok : i <= j]
    [] t = "ZodArray" ->
         IF v.kind # "array" THEN Invalid
         ELSE LET res == [i \in DOMAIN v.items |-> SafeParse(schema.type, v.items[i])]
                  n == Len(v.items)
              IN IF /\ \A i \in DOMAIN res : res[i].success
                    /\ (schema.minLength = Null \/ n >= schema.minLength.value)
                    /\ (schema.maxLength = Null \/ n <= schema.maxLength.value)
                 THEN Valid(VArr([i \in DOMAIN res |-> res[i].data]))
                 ELSE Invalid
    [] t = "ZodObject" ->
         IF v.kind # "object" THEN Invalid
         ELSE LET shape == schema.shape
                  res == [i \in DOMAIN shape |->
                            SafeParse(shape[i].value, Lookup(v.entries, shape[i].key))]
                  known == SelectSeq(
                             [i \in DOMAIN shape |->
                                [key |-> shape[i].key, res |-> res[i]]],
                             LAMBDA e : e.res.success /\ e.key \in KeysOf(v.entries))
                  extra == SelectSeq(v.entries,
                                     LAMBDA e : e.key \notin KeysOf(shape))
              IN IF /\ \A i \in DOMAIN res : res[i].success
                    /\ (schema.unknownKeys = "strict" => extra = <<>>)
                 THEN Valid(VObj([i \in DOMAIN known |->
                                    Entry(known[i].key, known[i].res.data)]
                                 \o (IF schema.unknownKeys = "passthrough"
                                     THEN extra ELSE <<>>)))
                 ELSE Invalid
    [] t = "ZodRecord" ->
         IF v.kind # "object" THEN Invalid
         ELSE LET res == [i \in DOMAIN v.entries |->
                            SafeParse(schema.valueType, v.entries[i].value)]
              IN IF \A i \in DOMAIN res : res[i].success
                 THEN Valid(VObj([i \in DOMAIN res |->
                                    Entry(v.entries[i].key, res[i].data)]))
                 ELSE Invalid
    [] t = "ZodEffects" ->
         LET inner == SafeParse(schema.schema, v)
         IN IF ~inner.success THEN Invalid
            ELSE IF schema.effect.type = "transform"
                 THEN Valid(VBuffer(inner.data.val))
                 ELSE IF RefinementOk(schema.effect, inner.data)
                      THEN Valid(inner.data) ELSE Invalid
    [] OTHER -> Invalid

(* ---------------------------------------------------------------------- *)
(* Inputs: schema trees handed to zodToBsonSchema / createMongoValidator   *)
(* ---------------------------------------------------------------------- *)
LowerRegex == Regex("^[a-z]+$", "")
LowerRegexI == Regex("^[a-z]+$", "i")
ObjectIdRegex == Regex(objectIdPattern, "")
ObjectIdRegexI == Regex(objectIdPattern, "i")

StringChecks ==
  {MinCheck(1), MaxCheck(MaxBound), RegexCheck(ObjectIdRegex),
   RegexCheck(ObjectIdRegexI), RegexCheck(LowerRegex), RegexCheck(LowerRegexI), EmailCheck}

ZodStrings == {ZString(cs) : cs \in SeqsUpTo(StringChecks, MaxChecks)}

Colors == <<"red", "green">>

ZodNumbers ==
  {ZNumber(<<>>), ZNumber(<<IntCheck>>), ZNumber(<<MinCheck(1), IntCheck>>),
   ZNumber(<<IntCheck, MaxCheck(MaxBound)>>), ZNumber(<<MultipleOfCheck(1)>>)}

ZodLeaves ==
  {ZString(<<>>), ZString(<<MinCheck(1)>>), ZBoolean, ZDate, ZEnum(Colors),
   ZNumber(<<>>), ZAny, ZUndefined, ZTuple}

LengthOptions == {Null} \cup {[value |-> n] : n \in 1..MaxBound}

\* every composite node over the children K (second children from K2)
Compose(K, K2) ==
  {ZOptional(k) : k \in K} \cup {ZNullable(k) : k \in K}
  \cup {ZRecord(k) : k \in K}
  \cup {ZArray(k, Null, Null) : k \in K}
  \cup {ZUnion(<<k>>) : k \in K}
  \cup {ZUnion(<<k, k2>>) : k \in K, k2 \in K2}
  \cup {ZObject(<<>>, "strip")}
  \cup {ZObject(<<Entry("a", k)>>, "strip") : k \in K}
  \cup {ZObject(<<Entry("a", ZOptional(k))>>, "strip") : k \in K}
  \cup {ZObject(<<Entry("a", k), Entry("b", k2)>>, "strip") : k \in K, k2 \in K2}
  \cup {ZObject(<<Entry("b", k2), Entry("a", k)>>, "strip") : k \in K, k2 \in K2}

ZodSecond == {ZOptional(ZString(<<>>)), ZBoolean, ZBigInt}

ZodLevel1 == Compose(ZodLeaves, ZodSecond)

ZodKids ==
  {ZOptional(ZString(<<>>)), ZNullable(ZString(<<>>)), ZOptional(ZTuple),
   ZNullable(ZOptional(ZBoolean)), ZOptional(ZNullable(ZDate)),
   ZArray(ZString(<<MinCheck(1)>>), Null, Null), ZRecord(ZBoolean),
   ZUnion(<<ZString(<<>>), ZBigInt>>),
   ZObject(<<Entry("a", ZString(<<>>)), Entry("b", ZOptional(ZString(<<>>)))>>,
           "strip"),
   ZObject(<<Entry("a", ZArray(ZTuple, Null, Null))>>, "strip")}

ZodLevel2 == Compose(ZodKids, ZodSecond)

\* String nodes with every list of checks, bare and inside containers
ZodStringTrees ==
  ZodStrings
  \cup {ZArray(s, Null, Null) : s \in ZodStrings}
  \cup {ZObject(<<Entry("a", s)>>, "strip") : s \in ZodStrings}

\* Array nodes with every pair of length bounds
ZodArrays ==
  {ZArray(k, mn, mx) :
     k \in {ZString(<<>>), ZBoolean}, mn \in LengthOptions, mx \in LengthOptions}

ZodOthers ==
  {ZUndefined, ZBigInt, ZEffects(ZString(<<>>), Base64Effect),
   ZNativeEnum(<<Entry("Red", "red"), Entry("Green", "green")>>),
   ZEnum(<<>>), ZUnion(<<>>)}

ZodInputs ==
  ZodLeaves \cup ZodNumbers \cup ZodOthers \cup ZodLevel1 \cup ZodLevel2
  \cup ZodStringTrees \cup ZodArrays

(* ---------------------------------------------------------------------- *)
(* Inputs: descriptors handed to mongoSchemaToZod                          *)
(* ---------------------------------------------------------------------- *)
TBsonTypes ==
  {"double", "string", "object", "array", "objectId", "bool", "date", "null",
   "regex", "int", "timestamp", "long", "decimal", "uuid", "binData", "mixed"}

\* an optional key of a descriptor: absent, or present with one of vals
OptKey(key, vals) == {EmptyObj} \cup {[k \in {key} |-> v] : v \in vals}

BString == [bsonType |-> "string"]
BBool == [bsonType |-> "bool"]

BsonBare ==
  {[bsonType |-> t] : t \in (TBsonTypes \cup {"number"}) \ {"object", "array"}}
  \cup {EmptyObj}

BsonStrings ==
  {BString @@ a @@ b @@ c @@ d :
     a \in OptKey("minLength", {1}), b \in OptKey("maxLength", {MaxBound}),
     c \in OptKey("pattern", {"^[a-z]+$", objectIdPattern, ""}),
     d \in OptKey("enum", {Colors})}

BsonNumbers ==
  {[bsonType |-> t] @@ a @@ b @@ c :
     t \in {"int", "double"}, a \in OptKey("minimum", {1}),
     b \in OptKey("maximum", {MaxBound}), c \in OptKey("multipleOf", {1})}

BObject(properties) == [bsonType |-> "object", properties |-> properties]
BArray(items) == [bsonType |-> "array", items |-> items]

BsonLeaves ==
  {BString, BBool, [bsonType |-> "objectId"], [bsonType |-> "date"],
   [bsonType |-> "int"], [bsonType |-> "regex"], [bsonType |-> "null"],
   EmptyObj}

BsonSecond == {BBool, [bsonType |-> "timestamp"]}

BCompose(K, K2) ==
  {BArray(k) : k \in K}
  \cup {BArray(ItemsList(<<k>>)) : k \in K}
  \cup {BArray(ItemsList(<<k, k2>>)) : k \in K, k2 \in K2}
  \cup {BArray(ItemsList(<<>>))}
  \cup {[oneOf |-> <<>>]}
  \cup {[oneOf |-> <<k>>] : k \in K}
  \cup {[oneOf |-> <<k, k2>>] : k \in K, k2 \in K2}
  \cup {[oneOf |-> <<k2, k>>] : k \in K, k2 \in K2}
  \cup {BObject(<<>>)}
  \cup {BObject(<<Entry("a", k)>>) : k \in K}
  \cup {BObject(<<Entry("a", k)>>) @@ [required |-> <<"a">>] : k \in K}
  \cup {BObject(<<Entry("a", k), Entry("b", k2)>>) @@ [required |-> <<"b">>] :
          k \in K, k2 \in K2}
  \cup {[bsonType |-> "object", additionalProperties |-> k] : k \in K}

BsonLevel1 == BCompose(BsonLeaves, BsonSecond)

BsonKids ==
  {BArray(BString), BArray([bsonType |-> "mixed"]),
   BObject(<<Entry("a", BString)>>),
   BObject(<<Entry("a", [bsonType |-> "regex"])>>),
   [oneOf |-> <<BString>>], [oneOf |-> <<[bsonType |-> "null"], BString>>],
   [bsonType |-> "object", additionalProperties |-> BBool]}

BsonLevel2 == BCompose(BsonKids, BsonSecond)

\* array descriptors with every combination of the length and uniqueness keys
BsonArrays ==
  {BArray(k) @@ a @@ b @@ c :
     k \in {BString, BBool, [bsonType |-> "date"], [bsonType |-> "binData"],
            BArray(BString), BObject(<<Entry("a", BString)>>),
            [oneOf |-> <<BString, BObject(<<>>)>>]},
     a \in OptKey("minItems", {1}), b \in OptKey("maxItems", {MaxBound}),
     c \in OptKey("uniqueItems", {TRUE, FALSE})}

AdditionalOptions ==
  OptKey("additionalProperties", {JsBool(FALSE), JsBool(TRUE), BString})

\* object descriptors with every combination of the property-count keys
BsonCountedObjects ==
  {BObject(<<Entry("a", BString)>>) @@ a @@ b @@ c :
     a \in OptKey("minProperties", 0..MaxBound),
     b \in OptKey("maxProperties", 0..MaxBound),
     c \in AdditionalOptions}

BsonObjects ==
  {BObject(p) @@ r @@ c :
     p \in {<<Entry("a", BString)>>, <<Entry("a", BString), Entry("b", BBool)>>},
     r \in OptKey("required", {<<"a">>, <<"b", "a">>, <<"c">>, <<>>}),
     c \in AdditionalOptions}

BsonInputs ==
  BsonBare \cup BsonStrings \cup BsonNumbers \cup BsonLevel1 \cup BsonLevel2
  \cup BsonArrays \cup BsonCountedObjects \cup BsonObjects

(* ---------------------------------------------------------------------- *)
(* Inputs: values handed to a converted schema's safeParse                 *)
(* ---------------------------------------------------------------------- *)
Words == <<"a", "ab", "abc", "abcd">>
Keys == <<"a", "b", "c", "d">>

StringValues ==
  {VStr(s) : s \in {"", "a", "A", "ab", "abc", "abcd", "red",
                    EmailString, OidString}}

ScalarValues ==
  {VBool(TRUE), VNum(2), VNum(3), VDate(0), VNull, VUndefined}

\* arrays of 0..MaxBound+1 distinct words
WordArrays ==
  {VArr([i \in 1..n |-> VStr(Words[i])]) : n \in 0..(MaxBound + 1)}

\* objects with 0..MaxBound+1 entries; the entry "a" is a string
CountedObjects ==
  {VObj([i \in 1..n |-> Entry(Keys[i], IF i = 2 THEN VBool(TRUE) ELSE VStr("a"))]) :
     n \in 0..(MaxBound + 1)}

ObjA == VObj(<<Entry("a", VStr("a"))>>)

\* arrays holding equal elements, primitive and composite
DuplicateArrays ==
  {VArr(<<v, v>>) :
     v \in {VStr("a"), VBool(TRUE), VDate(0), ObjA, VArr(<<VStr("a")>>),
            VObj(<<>>)}}
  \cup {VArr(<<ObjA, VObj(<<Entry("a", VStr("ab"))>>)>>),
        VArr(<<VBool(TRUE)>>), VArr(<<VStr("a"), ObjA>>)}

OtherObjects ==
  {VObj(<<Entry("b", VBool(TRUE))>>), VObj(<<Entry("a", VBool(TRUE))>>),
   VObj(<<Entry("a", VStr(""))>>), VObj(<<Entry("a", VStr("A"))>>),
   VObj(<<Entry("c", VStr("a"))>>)}

Values ==
  StringValues \cup ScalarValues \cup WordArrays \cup CountedObjects
  \cup DuplicateArrays \cup OtherObjects

(* ---------------------------------------------------------------------- *)
(* The calls                                                               *)
(* ---------------------------------------------------------------------- *)
Init ==
  /\ \/ zodIn \in ZodInputs /\ bsonIn = None
     \/ zodIn = None /\ bsonIn \in BsonInputs
  /\ bsonOut = None
  /\ validator = None
  /\ zodOut = None
  /\ bsonAgain = None
  /\ parsed = None

\* zodToBsonSchema(zodIn)
CallZodToBsonSchema ==
  /\ zodIn # None
  /\ bsonOut = None
  /\ bsonOut' = zodToBsonSchema(zodIn)
  /\ UNCHANGED <<zodIn, bsonIn, validator, zodOut, bsonAgain, parsed>>

\* createMongoValidator(zodIn)
CallCreateMongoValidator ==
  /\ zodIn # None
  /\ validator = None
  /\ validator' = createMongoValidator(zodIn)
  /\ UNCHANGED <<zodIn, bsonIn, bsonOut, zodOut, bsonAgain, parsed>>

\* mongoSchemaToZod of a hand-written descriptor
CallMongoSchemaToZod ==
  /\ bsonIn # None
  /\ zodOut = None
  /\ zodOut' = mongoSchemaToZod(bsonIn)
  /\ UNCHANGED <<zodIn, bsonIn, bsonOut, validator, bsonAgain, parsed>>

\* mongoSchemaToZod of the descriptor zodToBsonSchema returned
CallRoundTrip ==
  /\ bsonOut # None
  /\ ~IsError(bsonOut)
  /\ zodOut = None
  /\ zodOut' = mongoSchemaToZod(bsonOut)
  /\ UNCHANGED <<zodIn, bsonIn, bsonOut, validator, bsonAgain, parsed>>

\* zodToBsonSchema of the schema mongoSchemaToZod returned
CallForwardAgain ==
  /\ zodOut # None
  /\ ~IsError(zodOut)
  /\ bsonAgain = None
  /\ bsonAgain' = zodToBsonSchema(zodOut)
  /\ UNCHANGED <<zodIn, bsonIn, bsonOut, validator, zodOut, parsed>>

\* zodOut.safeParse(v): runs the refinements the converter attached
CallSafeParse ==
  /\ zodOut # None
  /\ ~IsError(zodOut)
  /\ parsed = None
  /\ \E v \in Values :
       parsed' = [value |-> v, result |-> SafeParse(zodOut, v)]
  /\ UNCHANGED <<zodIn, bsonIn, bsonOut, validator, zodOut, bsonAgain>>

Next ==
  \/ CallZodToBsonSchema
  \/ CallCreateMongoValidator
  \/ CallMongoSchemaToZod
  \/ CallRoundTrip
  \/ CallForwardAgain
  \/ CallSafeParse

Spec == Init /\ [][Next]_vars

(* ---------------------------------------------------------------------- *)
(* Claims                                                                  *)
(* ---------------------------------------------------------------------- *)
RECURSIVE IsLossless(_)
\* a tree built only from Object, Array, String, Boolean, Date and Enum nodes
IsLossless(z) ==
  CASE z.typeName \in {"ZodString", "ZodBoolean", "ZodDate", "ZodEnum"} -> TRUE
    [] z.typeName = "ZodArray" -> IsLossless(z.type)
    [] z.typeName = "ZodObject" ->
         \A i \in DOMAIN z.shape : IsLossless(z.shape[i].value)
    [] OTHER -> FALSE

RoundTripped == zodIn # None /\ bsonOut # None /\ zodOut # None

\* C1 (as stated): round-trip stability.  For a schema tree built only from
\* Object, Array, String, Boolean, Date and Enum nodes, every value the
\* tree accepts is accepted by mongoSchemaToZod(zodToBsonSchema(tree)).
C1_RoundTripAccepts ==
  (RoundTripped /\ IsLossless(zodIn) /\ parsed # None
   /\ SafeParse(zodIn, parsed.value).success)
    => parsed.result.success

\* a String node whose only constraint is the identifier-pattern literal
OnlyIdentifierPattern(z) ==
  /\ z.typeName = "ZodString"
  /\ Len(z.checks) = 1
  /\ z.checks[1].kind = "regex"
  /\ z.checks[1].regex.source = "^[0-9a-fA-F]{24}$"

\* C2: a String node constrained only by the identifier-pattern literal
\* converts to the bare descriptor {bsonType: 'objectId'}; that descriptor
\* converts back to a String node whose single constraint is a regex with
\* exactly that source; and that node converts to the objectId descriptor
\* again.
C2_ObjectIdRoundTrip ==
  (zodIn # None /\ OnlyIdentifierPattern(zodIn)) =>
    /\ bsonOut # None => bsonOut = [bsonType |-> "objectId"]
    /\ zodOut # None => OnlyIdentifierPattern(zodOut)
    /\ bsonAgain # None => bsonAgain = [bsonType |-> "objectId"]

C2_Witness ==
  /\ zodIn # None /\ OnlyIdentifierPattern(zodIn)
  /\ bsonOut = [bsonType |-> "objectId"]
  /\ zodOut # None /\ OnlyIdentifierPattern(zodOut)
  /\ bsonAgain = [bsonType |-> "objectId"]

RequiredList(d) == IF Has(d, "required") THEN d.required ELSE <<>>

IndexOfKey(shape, key) == CHOOSE i \in DOMAIN shape : shape[i].key = key

ObjectAB ==
  ZObject(<<Entry("a", ZString(<<>>)), Entry("b", ZOptional(ZString(<<>>)))>>,
          "strip")

\* C3: for an Object node whose fields convert, the descriptor is an object
\* descriptor whose properties holds one entry per field, in field order,
\* with the conversion of the field's node; a field name is in `required`
\* iff the field's node is not itself an Optional-wrapper, the names appear
\* once each in field order, and {a: string, b: optional(string)} gives
\* required = ["a"].
C3_ObjectRequired ==
  (zodIn # None /\ zodIn.typeName = "ZodObject" /\ bsonOut # None) =>
    LET shape == zodIn.shape
        conv == [i \in DOMAIN shape |-> zodToBsonSchema(shape[i].value)]
        req == RequiredList(bsonOut)
    IN IF \E i \in DOMAIN shape : IsError(conv[i])
       THEN IsError(bsonOut)
       ELSE /\ ~IsError(bsonOut)
            /\ bsonOut.bsonType = "object"
            /\ Len(bsonOut.properties) = Len(shape)
            /\ \A i \in DOMAIN shape :
                 bsonOut.properties[i] = Entry(shape[i].key, conv[i])
            /\ \A i \in DOMAIN shape :
                 (\E j \in DOMAIN req : req[j] = shape[i].key)
                   <=> shape[i].value.typeName # "ZodOptional"
            /\ \A j \in DOMAIN req : req[j] \in KeysOf(shape)
            /\ \A j, k \in DOMAIN req :
                 j < k => IndexOfKey(shape, req[j]) < IndexOfKey(shape, req[k])
            /\ (Has(bsonOut, "required") => req # <<>>)
            /\ (zodIn = ObjectAB => req = <<"a">>)

C3_Witness ==
  /\ zodIn = ObjectAB
  /\ bsonOut # None
  /\ Has(bsonOut, "required")
  /\ bsonOut.required = <<"a">>
  /\ Len(bsonOut.properties) = 2

RECURSIVE Flatten(_)
Flatten(seqs) == IF seqs = <<>> THEN <<>> ELSE Head(seqs) \o Flatten(Tail(seqs))

\* the kinds, in traversal order, of the nodes of descriptor d (d itself, or
\* nested inside properties, items or an Alternatives list) whose kind is
\* not in `supported`
RECURSIVE UnsupportedKinds(_, _)
UnsupportedKinds(d, supported) ==
  LET t == IF Has(d, "bsonType") THEN d.bsonType ELSE "undefined" IN
  IF Has(d, "oneOf")
  THEN Flatten([i \in DOMAIN d.oneOf |-> UnsupportedKinds(d.oneOf[i], supported)])
  ELSE CASE t = "array" ->
              IF Has(d.items, "list")
              THEN Flatten([i \in DOMAIN d.items.list |->
                              UnsupportedKinds(d.items.list[i], supported)])
              ELSE UnsupportedKinds(d.items, supported)
         [] t = "object" ->
              IF Has(d, "properties")
              THEN Flatten([i \in DOMAIN d.properties |->
                              UnsupportedKinds(d.properties[i].value, supported)])
              ELSE <<>>
         [] t \in supported -> <<>>
         [] OTHER -> <<t>>

\* every object node the traversal reaches carries `properties`, as
\* TMongoSchemaObject requires
RECURSIVE HasProperties(_)
HasProperties(d) ==
  IF Has(d, "oneOf") THEN \A i \in DOMAIN d.oneOf : HasProperties(d.oneOf[i])
  ELSE IF ~Has(d, "bsonType") THEN TRUE
  ELSE CASE d.bsonType = "array" ->
              IF Has(d.items, "list")
              THEN \A i \in DOMAIN d.items.list : HasProperties(d.items.list[i])
              ELSE HasProperties(d.items)
         [] d.bsonType = "object" ->
              /\ Has(d, "properties")
              /\ \A i \in DOMAIN d.properties : HasProperties(d.properties[i].value)
         [] OTHER -> TRUE

\* the kinds the claim lists as handled
ClaimKinds ==
  {"array", "object", "string", "bool", "objectId", "date", "uuid", "binData",
   "double", "int", "long", "decimal"}

Reversed == bsonIn # None /\ zodOut # None

\* C4 (as stated): a descriptor holding, at the top or nested in properties,
\* items or an Alternatives list, a node whose kind is not one of array,
\* object, string, bool, objectId, date, uuid, binData, double, int, long,
\* decimal makes mongoSchemaToZod raise the error naming that kind.
C4_UnsupportedKindAsStated ==
  (Reversed /\ HasProperties(bsonIn)
   /\ UnsupportedKinds(bsonIn, ClaimKinds) # <<>>)
    => zodOut = [error |-> "Unsupported BSON type",
                 name |-> Head(UnsupportedKinds(bsonIn, ClaimKinds))]

\* C4 (amended): the kind string "number" is handled too (it yields a Number
\* node).  A descriptor holding a node of any other unlisted kind never
\* yields a schema node; when its object nodes carry `properties` the call
\* raises the error naming the kind of the first such node in traversal
\* order, and a descriptor holding no such node raises nothing.
C4_UnsupportedKind ==
  Reversed =>
    LET bad == UnsupportedKinds(bsonIn, ClaimKinds \cup {"number"}) IN
    /\ bad # <<>> => IsError(zodOut)
    /\ HasProperties(bsonIn) =>
         IF bad # <<>>
         THEN zodOut = [error |-> "Unsupported BSON type", name |-> Head(bad)]
         ELSE ~IsError(zodOut)
    /\ bsonIn = [bsonType |-> "number"] => zodOut = ZNumber(<<>>)

C4_Witness ==
  /\ bsonIn = BObject(<<Entry("a", BObject(<<Entry("a", [bsonType |-> "regex"])>>))>>)
  /\ zodOut = [error |-> "Unsupported BSON type", name |-> "regex"]

MappedVariants ==
  {"ZodOptional", "ZodNullable", "ZodUndefined", "ZodUnion", "ZodObject",
   "ZodRecord", "ZodArray", "ZodString", "ZodNumber", "ZodBoolean", "ZodDate",
   "ZodEnum", "ZodNativeEnum", "ZodAny"}

\* the class names, in traversal order, of the nodes without a mapping rule
\* at the positions the converter recurses into
RECURSIVE UnmappedVariants(_)
UnmappedVariants(z) ==
  LET t == z.typeName IN
  CASE t \in {"ZodOptional", "ZodNullable"} -> UnmappedVariants(z.innerType)
    [] t = "ZodUnion" ->
         Flatten([i \in DOMAIN z.options |-> UnmappedVariants(z.options[i])])
    [] t = "ZodObject" ->
         Flatten([i \in DOMAIN z.shape |-> UnmappedVariants(z.shape[i].value)])
    [] t = "ZodRecord" -> UnmappedVariants(z.valueType)
    [] t = "ZodArray" -> UnmappedVariants(z.type)
    [] t \in MappedVariants -> <<>>
    [] OTHER -> <<t>>

DescriptorKeys ==
  {"bsonType", "oneOf", "properties", "required", "additionalProperties",
   "items", "minItems", "maxItems", "minLength", "maxLength", "pattern", "enum"}

\* C5: a tree holding an unmapped variant at a position the converter
\* recurses into makes zodToBsonSchema raise the error carrying that node's
\* class name (the first one in traversal order) and nothing else is
\* returned; a tree of mapped variants only yields a descriptor and no
\* error.
C5_UnsupportedVariant ==
  (zodIn # None /\ bsonOut # None) =>
    IF UnmappedVariants(zodIn) # <<>>
    THEN bsonOut = [error |-> "Unsupported Zod type",
                    name |-> Head(UnmappedVariants(zodIn))]
    ELSE ~IsError(bsonOut) /\ DOMAIN bsonOut \subseteq DescriptorKeys

C5_Witness ==
  /\ zodIn = ZOptional(ZObject(<<Entry("a", ZArray(ZTuple, Null, Null))>>, "strip"))
  /\ bsonOut = [error |-> "Unsupported Zod type", name |-> "ZodTuple"]

HasDuplicate(items) ==
  \E i, j \in DOMAIN items : i < j /\ items[i] = items[j]

ParsedBy(kind) ==
  /\ Reversed /\ ~IsError(zodOut) /\ parsed # None
  /\ ~Has(bsonIn, "oneOf") /\ Has(bsonIn, "bsonType") /\ bsonIn.bsonType = kind

\* C6 (as stated): the schema built from an array descriptor with
\* uniqueItems true rejects a sequence (that passes the element and length
\* checks) iff two of its elements are equal under structural equality.
C6_UniqueItemsStructural ==
  (ParsedBy("array") /\ Has(bsonIn, "uniqueItems") /\ bsonIn.uniqueItems
   /\ SafeParse(zodOut.schema, parsed.value).success)
    => (parsed.result.success <=> ~HasDuplicate(parsed.value.items))

Without(d, keys) == [k \in DOMAIN d \ keys |-> d[k]]

\* C7: with minProperties and/or maxProperties present the schema rejects
\* a mapping that passes the plain object schema iff its entry count is
\* below minProperties or above maxProperties (a missing bound sets no
\* limit); with neither present the plain object schema is returned.
C7_PropertyCount ==
  (Reversed /\ ~IsError(zodOut) /\ ~Has(bsonIn, "oneOf")
   /\ Has(bsonIn, "bsonType") /\ bsonIn.bsonType = "object") =>
    LET hasMin == Has(bsonIn, "minProperties")
        hasMax == Has(bsonIn, "maxProperties")
        plain == mongoSchemaToZod(Without(bsonIn, {"minProperties", "maxProperties"}))
    IN IF ~hasMin /\ ~hasMax
       THEN zodOut.typeName = "ZodObject"
       ELSE /\ plain.typeName = "ZodObject"
            /\ zodOut.typeName = "ZodEffects"
            /\ zodOut.schema = plain
            /\ parsed # None =>
                 LET passes == SafeParse(plain, parsed.value).success
                     count == Len(parsed.value.entries)
                 IN /\ ~passes => ~parsed.result.success
                    /\ passes =>
                         (~parsed.result.success
                            <=> \/ hasMin /\ count < bsonIn.minProperties
                                \/ hasMax /\ count > bsonIn.maxProperties)

C7_Witness ==
  /\ ParsedBy("object")
  /\ Has(bsonIn, "minProperties") /\ bsonIn.minProperties = 1
  /\ Has(bsonIn, "maxProperties") /\ bsonIn.maxProperties = 2
  /\ parsed.value = VObj(<<>>)
  /\ SafeParse(zodOut.schema, parsed.value).success
  /\ ~parsed.result.success

\* C8: createMongoValidator returns a structure whose only key is
\* $jsonSchema, holding what zodToBsonSchema returns for the same input,
\* and fails exactly when zodToBsonSchema fails, with the same error.
C8_ValidatorBuilder ==
  (zodIn # None /\ bsonOut # None /\ validator # None) =>
    IF IsError(bsonOut)
    THEN validator = bsonOut
    ELSE /\ DOMAIN validator = {"$jsonSchema"}
         /\ validator["$jsonSchema"] = bsonOut

C8_Witness ==
  /\ zodIn = ObjectAB /\ bsonOut # None /\ validator # None
  /\ DOMAIN validator = {"$jsonSchema"}
  /\ validator["$jsonSchema"].bsonType = "object"

\* C9 (as stated): an Alternatives node with exactly one member converts to
\* that member's schema node, with no Union wrapper; any other list
\* converts to a Union of the converted members in list order.
C9_AlternativesUnwrapped ==
  (Reversed /\ Has(bsonIn, "oneOf") /\ ~IsError(zodOut)) =>
    LET members == [i \in DOMAIN bsonIn.oneOf |-> mongoSchemaToZod(bsonIn.oneOf[i])]
    IN IF Len(members) = 1
       THEN zodOut = members[1]
       ELSE zodOut = ZUnion(members)

\* C10 (as stated): a String node gets the bare objectId descriptor only
\* when the identifier-pattern is its only constraint; with any other
\* constraint beside it the result is a String descriptor.
C10_ObjectIdExclusive ==
  (zodIn # None /\ zodIn.typeName = "ZodString" /\ bsonOut # None) =>
    /\ bsonOut = [bsonType |-> "objectId"] => OnlyIdentifierPattern(zodIn)
    /\ ~OnlyIdentifierPattern(zodIn) => bsonOut.bsonType = "string"


\* pattern matching as the database applies a descriptor's `pattern`
MatchesPattern(pattern, s) ==
  pattern = "" \/ MatchSegs(PatternSegments(pattern), Chars(s), FALSE)

\* a string descriptor's own constraints on the string s
StringDescriptorAdmits(d, s) ==
  /\ Has(d, "minLength") => Len(Chars(s)) >= d.minLength
  /\ Has(d, "maxLength") => Len(Chars(s)) <= d.maxLength
  /\ Has(d, "pattern") => MatchesPattern(d.pattern, s)

\* what one active constraint of a String node demands of s once translated:
\* a length bound, the pattern's source, or the fixed email pattern
TranslatedCheckHolds(check, s) ==
  CASE check.kind = "min" -> Len(Chars(s)) >= check.value
    [] check.kind = "max" -> Len(Chars(s)) <= check.value
    [] check.kind = "regex" -> MatchesPattern(check.regex.source, s)
    [] check.kind = "email" ->
         MatchesPattern(emailPattern, s)

SampleStrings == {v.val : v \in StringValues}

\* C11 (as stated): for a String node that is not the objectId special
\* case the result is a String descriptor in which every active constraint
\* of the node applies: a string the descriptor admits satisfies the
\* translation of each of the node's constraints, also with a pattern
\* beside the email marker or with two patterns.
C11_StringConstraintsCompose ==
  (zodIn # None /\ zodIn.typeName = "ZodString" /\ bsonOut # None
   /\ bsonOut # [bsonType |-> "objectId"]) =>
    /\ bsonOut.bsonType = "string"
    /\ \A s \in SampleStrings :
         StringDescriptorAdmits(bsonOut, s) =>
           \A i \in DOMAIN zodIn.checks : TranslatedCheckHolds(zodIn.checks[i], s)

\* C12 (as stated): a Number node converts to a non-empty Alternatives node
\* listing int, long, double, decimal in that order (int, long only with
\* the integer-only constraint), each alternative carrying the node's
\* minimum, maximum and multiple-of whenever the node declares them.
C12_NumberAlternatives ==
  (zodIn # None /\ zodIn.typeName = "ZodNumber" /\ bsonOut # None) =>
    LET checks == zodIn.checks
        Declares(kind) == \E i \in DOMAIN checks : checks[i].kind = kind
        Declared(kind) ==
          checks[CHOOSE i \in DOMAIN checks :
                   /\ checks[i].kind = kind
                   /\ \A j \in DOMAIN checks : checks[j].kind = kind => j <= i].value
        Carries(alt, key, kind) ==
          Declares(kind) => Has(alt, key) /\ alt[key] = Declared(kind)
    IN /\ Has(bsonOut, "oneOf")
       /\ bsonOut.oneOf # <<>>
       /\ [i \in DOMAIN bsonOut.oneOf |-> bsonOut.oneOf[i].bsonType]
            = IF Declares("int") THEN <<"int", "long">>
              ELSE <<"int", "long", "double", "decimal">>
       /\ \A i \in DOMAIN bsonOut.oneOf :
            /\ Carries(bsonOut.oneOf[i], "minimum", "min")
            /\ Carries(bsonOut.oneOf[i], "maximum", "max")
            /\ Carries(bsonOut.oneOf[i], "multipleOf", "multipleOf")


\* the object node of a converted object descriptor, under the property
\* count refinement when there is one
ObjectNode(schema) ==
  IF schema.typeName = "ZodEffects" THEN schema.schema ELSE schema

\* the entries of obj whose names are among keys
Restrict(obj, keys) == VObj(SelectSeq(obj.entries, LAMBDA e : e.key \in keys))

ReversedObject ==
  /\ Reversed /\ ~IsError(zodOut) /\ ~Has(bsonIn, "oneOf")
  /\ Has(bsonIn, "bsonType") /\ bsonIn.bsonType = "object"
  /\ Has(bsonIn, "properties")

\* C13: for an object descriptor (with properties whose entries convert)
\* mongoSchemaToZod returns an object schema with one field per entry of
\* properties, in order, holding the entry's conversion, wrapped in Optional
\* iff the name is not in required (no required list: all Optional; a
\* required name without an entry: no field).  The container is strict iff
\* additionalProperties is exactly false, and passthrough otherwise (true,
\* absent, or a nested descriptor): a mapping with unknown fields is then
\* rejected in the first case, and in the second accepted exactly when its
\* known part is, the unknown fields being kept.
C13_ObjectDescriptor ==
  ReversedObject =>
    LET node == ObjectNode(zodOut)
        props == bsonIn.properties
        names == {RequiredList(bsonIn)[i] : i \in DOMAIN RequiredList(bsonIn)}
        exactlyFalse == /\ Has(bsonIn, "additionalProperties")
                        /\ bsonIn.additionalProperties = JsBool(FALSE)
        counted == Has(bsonIn, "minProperties") \/ Has(bsonIn, "maxProperties")
    IN /\ node.typeName = "ZodObject"
       /\ DOMAIN node.shape = DOMAIN props
       /\ \A i \in DOMAIN props :
            LET field == mongoSchemaToZod(props[i].value)
            IN /\ node.shape[i].key = props[i].key
               /\ node.shape[i].value =
                    IF props[i].key \in names THEN field ELSE ZOptional(field)
       /\ node.unknownKeys = IF exactlyFalse THEN "strict" ELSE "passthrough"
       /\ (parsed # None /\ parsed.value.kind = "object"
           /\ ~(KeysOf(parsed.value.entries) \subseteq KeysOf(props))) =>
            IF exactlyFalse
            THEN ~parsed.result.success
            ELSE /\ parsed.result.success =>
                      \A i \in DOMAIN parsed.value.entries :
                        parsed.value.entries[i].key \notin KeysOf(props) =>
                          \E j \in DOMAIN parsed.result.data.entries :
                            parsed.result.data.entries[j] = parsed.value.entries[i]
                 /\ ~counted =>
                      (parsed.result.success
                         <=> SafeParse(zodOut, Restrict(parsed.value, KeysOf(props))).success)

\* a nested descriptor as additionalProperties and a required name without
\* an entry: both fields Optional, the unknown field "c" passed through
C13_Witness ==
  /\ ReversedObject /\ parsed # None
  /\ bsonIn = BObject(<<Entry("a", BString), Entry("b", BBool)>>)
                @@ [required |-> <<"c">>] @@ [additionalProperties |-> BString]
  /\ zodOut = ZObject(<<Entry("a", ZOptional(ZString(<<>>))),
                        Entry("b", ZOptional(ZBoolean))>>, "passthrough")
  /\ parsed.value = VObj(<<Entry("a", VStr("a")), Entry("b", VBool(TRUE)),
                           Entry("c", VStr("a"))>>)
  /\ parsed.result = Valid(parsed.value)


\* C14: for a string descriptor with enum, mongoSchemaToZod returns the
\* closed-set schema of the enum literals, which accepts exactly those
\* literals whatever minLength, maxLength or pattern the node also has;
\* without enum it returns a String schema that accepts a value iff it is a
\* string satisfying each present minLength, maxLength and pattern.
C14_StringDescriptor ==
  (Reversed /\ ~Has(bsonIn, "oneOf") /\ Has(bsonIn, "bsonType")
   /\ bsonIn.bsonType = "string") =>
    IF Has(bsonIn, "enum")
    THEN /\ zodOut.typeName = "ZodEnum"
         /\ zodOut.values = bsonIn.enum
         /\ parsed # None =>
              (parsed.result.success
                 <=> /\ parsed.value.kind = "string"
                     /\ \E i \in DOMAIN bsonIn.enum : bsonIn.enum[i] = parsed.value.val)
    ELSE /\ zodOut.typeName = "ZodString"
         /\ parsed # None =>
              (parsed.result.success
                 <=> /\ parsed.value.kind = "string"
                     /\ StringDescriptorAdmits(bsonIn, parsed.value.val))

\* an enum literal longer than the node's maxLength and outside its
\* pattern's reach is accepted; a string within both is rejected elsewhere
C14_Witness ==
  /\ ParsedBy("string")
  /\ Has(bsonIn, "enum") /\ Has(bsonIn, "maxLength") /\ Has(bsonIn, "pattern")
  /\ bsonIn.maxLength < Len(Chars("red"))
  /\ bsonIn.pattern = objectIdPattern
  /\ parsed.value = VStr("red")
  /\ parsed.result.success


\* the wrapper policy, followed through the tree z and its descriptor d
RECURSIVE WrapperPolicy(_, _)
WrapperPolicy(z, d) ==
  LET t == z.typeName IN
  CASE t = "ZodOptional" ->
         /\ d = zodToBsonSchema(z.innerType)
         /\ WrapperPolicy(z.innerType, d)
    [] t = "ZodNullable" ->
         /\ DOMAIN d = {"oneOf"}
         /\ Len(d.oneOf) = 2
         /\ d.oneOf[1] = [bsonType |-> "null"]
         /\ d.oneOf[2] = zodToBsonSchema(z.innerType)
         /\ WrapperPolicy(z.innerType, d.oneOf[2])
    [] t = "ZodUnion" ->
         \A i \in DOMAIN z.options : WrapperPolicy(z.options[i], d.oneOf[i])
    [] t = "ZodObject" ->
         \A i \in DOMAIN z.shape :
           WrapperPolicy(z.shape[i].value, d.properties[i].value)
    [] t = "ZodArray" -> WrapperPolicy(z.type, d.items)
    [] t = "ZodRecord" -> WrapperPolicy(z.valueType, d.additionalProperties)
    [] OTHER -> TRUE

\* C15: wherever zodToBsonSchema returns a descriptor, an Optional-wrapper
\* at the top or at any depth of the tree has exactly the descriptor of its
\* wrapped child, and a Nullable-wrapper has an Alternatives node of exactly
\* two members, {bsonType: 'null'} first and the child's descriptor second,
\* also for a Nullable around an Optional and an Optional around a Nullable.
C15_WrapperPolicy ==
  (zodIn # None /\ bsonOut # None /\ ~IsError(bsonOut)) =>
    WrapperPolicy(zodIn, bsonOut)

\* a Nullable around an Optional, nested as the field of an Object
C15_Witness ==
  /\ zodIn # None /\ bsonOut # None /\ ~IsError(bsonOut)
  /\ zodIn = ZObject(<<Entry("a", ZNullable(ZOptional(ZBoolean)))>>, "strip")
  /\ bsonOut.properties[1].value = [oneOf |-> <<[bsonType |-> "null"],
                                                [bsonType |-> "bool"]>>]


\* C16 (as stated): the reverse converter is total on the forward
\* converter's outputs: whenever zodToBsonSchema returned a descriptor for a
\* tree, mongoSchemaToZod of that descriptor returns a schema node and
\* raises no error.
C16_ReverseTotalOnForward ==
  (RoundTripped /\ ~IsError(bsonOut)) => ~IsError(zodOut)


\* union of a sequence of sets
RECURSIVE UnionAll(_)
UnionAll(sets) == IF sets = <<>> THEN {} ELSE Head(sets) \cup UnionAll(Tail(sets))

\* the objects reachable from the descriptor zodToBsonSchema(zodSchema)
\* that the call did not allocate: every case returns a new object literal
\* and new lists, except the Enum case, whose `enum` is the node's own
\* _def.values list
RECURSIVE SharedByForward(_)
SharedByForward(zodSchema) ==
  LET t == zodSchema.typeName IN
  CASE t \in {"ZodOptional", "ZodNullable"} -> SharedByForward(zodSchema.innerType)
    [] t = "ZodUnion" ->
         UnionAll([i \in DOMAIN zodSchema.options |->
                     SharedByForward(zodSchema.options[i])])
    [] t = "ZodObject" ->
         UnionAll([i \in DOMAIN zodSchema.shape |->
                     SharedByForward(zodSchema.shape[i].value)])
    [] t = "ZodRecord" -> SharedByForward(zodSchema.valueType)
    [] t = "ZodArray" -> SharedByForward(zodSchema.type)
    [] t = "ZodEnum" -> {"zodSchema._def.values"}
    [] OTHER -> {}

\* the objects reachable from the schema mongoSchemaToZod(mongoSchema) that
\* the call did not allocate: every kind builds its node with a z.* factory,
\* except objectId, which returns the module's one zodObjectId node
RECURSIVE SharedByReverse(_)
SharedByReverse(mongoSchema) ==
  LET t == IF Has(mongoSchema, "bsonType") THEN mongoSchema.bsonType ELSE "undefined" IN
  IF Has(mongoSchema, "oneOf")
  THEN UnionAll([i \in DOMAIN mongoSchema.oneOf |->
                   SharedByReverse(mongoSchema.oneOf[i])])
  ELSE CASE t = "array" ->
              IF Has(mongoSchema.items, "list")
              THEN UnionAll([i \in DOMAIN mongoSchema.items.list |->
                               SharedByReverse(mongoSchema.items.list[i])])
              ELSE SharedByReverse(mongoSchema.items)
         [] t = "object" ->
              UnionAll([i \in DOMAIN mongoSchema.properties |->
                          SharedByReverse(mongoSchema.properties[i].value)])
         [] t = "objectId" -> {"zodObjectId"}
         [] OTHER -> {}

\* C17 (as stated): whatever calls were made, each returned tree is made
\* only of nodes and lists the call allocated: the descriptor returned by
\* zodToBsonSchema or createMongoValidator shares no list with the input
\* tree (the enum literal list included), and the schema returned by
\* mongoSchemaToZod shares no node with a process-wide object or another
\* call's result (the node for an objectId descriptor included).
C17_FreshResults ==
  /\ (zodIn # None /\ bsonOut # None /\ ~IsError(bsonOut)) =>
       SharedByForward(zodIn) = {}
  /\ (zodIn # None /\ validator # None /\ ~IsError(validator)) =>
       SharedByForward(zodIn) = {}
  /\ (Reversed /\ ~IsError(zodOut)) => SharedByReverse(bsonIn) = {}
  /\ (RoundTripped /\ ~IsError(zodOut)) => SharedByReverse(bsonOut) = {}
  /\ (bsonAgain # None /\ ~IsError(bsonAgain)) => SharedByForward(zodOut) = {}

====
